---- MODULE Spec2Model ----
(***************************************************************************)
(* Model of syrah_bridge.py: the SyrahBridge mitmproxy addon.              *)
(*                                                                         *)
(* Two execution contexts share the addon object:                          *)
(*   - the engine context (mitmproxy's thread), which runs the hooks       *)
(*     request / response / error, one hook at a time;                     *)
(*   - the connection context (the thread started by _start_ws_server,     *)
(*     running one asyncio loop), which runs _handle_client,               *)
(*     _process_command and _broadcast; a coroutine is atomic with         *)
(*     respect to the other coroutines of the loop between two awaits.     *)
(* The two contexts interleave at the granularity of the hook's steps and  *)
(* of the decoding loop of _handle_update_rules.                           *)
(***************************************************************************)
EXTENDS Integers, Sequences, FiniteSets, TLC

\* ------------------------------------------------------------------ bounds
\* messages the connection context reads from its peers in one run
MaxCommands == 2
\* longest rule list the matcher is exercised on in SpecMatch
MaxRules == 2

\* the flows the engine handles and the connections peers open in one run
Flows == {1, 2}
Peers == {1, 2}

\* ------------------------------------------------------- URLs and patterns
\* Strings that are matched are sequences of one-character strings.
UrlSecret == <<"a", "/", "s">>
UrlPublic == <<"a", "/", "p">>
UrlRemote == <<"b", "/", "r">>
NoUrl == <<>>

PatAll == <<"*">>
PatSecret == <<"*", "s">>
PatHostA == <<"a", "/", "?">>
PatHostB == <<"b", "*">>
PatEmpty == <<>>

\* flow.id of a flow object; UnknownId is an id no flow has.
FlowId(f) == <<"id", f>>
UnknownId == <<"id", 0>>
FlowIds == {FlowId(f) : f \in Flows}

\* The URL the engine hands over with flow f.
FlowUrl(f) == IF f % 2 = 1 THEN UrlSecret ELSE UrlPublic

TypeBreakpoint == "breakpoint"
TypeMapLocal == "mapLocal"
TypeMapRemote == "mapRemote"
TypeBlock == "block"
RuleTypes == {TypeBreakpoint, TypeMapLocal, TypeMapRemote, TypeBlock}
\* rule_type=None: no filter (any falsy value behaves the same)
NoType == ""

Phases == {"request", "response"}

\* --------------------------------------------------------------- fnmatch
\* fnmatch.fnmatch(url, pattern) on a POSIX host (normcase is the identity):
\* "*" matches any run of characters, "?" exactly one, anything else itself;
\* the pattern is anchored to the whole string.  Character classes are not
\* used by the patterns of this model.
RECURSIVE _matches_pattern(_, _)
_matches_pattern(url, pattern) ==
    IF pattern = <<>> THEN url = <<>>
    ELSE IF Head(pattern) = "*"
         THEN \/ _matches_pattern(url, Tail(pattern))
              \/ url # <<>> /\ _matches_pattern(Tail(url), pattern)
    ELSE IF Head(pattern) = "?"
         THEN url # <<>> /\ _matches_pattern(Tail(url), Tail(pattern))
    ELSE url # <<>> /\ Head(url) = Head(pattern)
         /\ _matches_pattern(Tail(url), Tail(pattern))

\* ------------------------------------------------------------- ProxyRule
ProxyRule(id, type, pat, enabled, phase, file, target) ==
    [id |-> id, type |-> type, url_pattern |-> pat, enabled |-> enabled,
     phase |-> phase, file_path |-> file, target_url |-> target]

\* RuleQualifies without the `if not rule.enabled: continue` test
RuleQualifiesIgnoringEnabled(rule, url, phase, rule_type) ==
    /\ rule.phase = phase
    /\ ~(rule_type # NoType /\ rule.type # rule_type)
    /\ _matches_pattern(url, rule.url_pattern)

\* One iteration of the for loop of _find_matching_rule: does the loop
\* return this rule?
RuleQualifies(rule, url, phase, rule_type) ==
    /\ rule.enabled
    /\ rule.phase = phase
    /\ ~(rule_type # NoType /\ rule.type # rule_type)
    /\ _matches_pattern(url, rule.url_pattern)

\* _find_matching_rule as the loop computes it: scan from index i, return
\* the index of the first rule the loop returns, 0 for None.
RECURSIVE ScanRules(_, _, _, _, _)
ScanRules(rs, i, url, phase, rule_type) ==
    IF i > Len(rs) THEN 0
    ELSE IF RuleQualifies(rs[i], url, phase, rule_type) THEN i
    ELSE ScanRules(rs, i + 1, url, phase, rule_type)

_find_matching_rule(rs, url, phase, rule_type) ==
    ScanRules(rs, 1, url, phase, rule_type)

\* ------------------------------------------------ updateRules payloads
\* A decoded JSON element of cmd["rules"]: an object with the keys in `has`,
\* or something that is not an object (isObject = FALSE).
RuleFields == {"id", "type", "urlPattern", "enabled", "phase", "filePath",
               "targetUrl"}

RuleObj(has, id, type, pat, enabled, phase, file, target) ==
    [isObject |-> TRUE, has |-> has, id |-> id, type |-> type,
     urlPattern |-> pat, enabled |-> enabled, phase |-> phase,
     filePath |-> file, targetUrl |-> target]

NotAnObject ==
    [isObject |-> FALSE, has |-> {}, id |-> "", type |-> "",
     urlPattern |-> <<>>, enabled |-> FALSE, phase |-> "",
     filePath |-> "", targetUrl |-> <<>>]

\* r.get(key, default) for each field of ProxyRule
DecodeRule(r) ==
    ProxyRule(IF "id" \in r.has THEN r.id ELSE "",
              IF "type" \in r.has THEN r.type ELSE "",
              IF "urlPattern" \in r.has THEN r.urlPattern ELSE <<>>,
              IF "enabled" \in r.has THEN r.enabled ELSE TRUE,
              IF "phase" \in r.has THEN r.phase ELSE "request",
              IF "filePath" \in r.has THEN r.filePath ELSE "",
              IF "targetUrl" \in r.has THEN r.targetUrl ELSE NoUrl)

DecodeAll(data) == [i \in 1..Len(data) |-> DecodeRule(data[i])]
AllObjects(data) == \A i \in 1..Len(data) : data[i].isObject

\* request and response breakpoints on the "secret" URL
DataBreakpoints ==
    << RuleObj(RuleFields, "r1", TypeBreakpoint, PatSecret, TRUE, "request",
               "", NoUrl),
       RuleObj(RuleFields, "r2", TypeBreakpoint, PatSecret, TRUE, "response",
               "", NoUrl) >>
\* every request is held; the "secret" URL is redirected and the redirect
\* target is blocked
DataRemoteBlock ==
    << RuleObj(RuleFields, "r1", TypeBreakpoint, PatAll, TRUE, "request",
               "", NoUrl),
       RuleObj(RuleFields, "r2", TypeMapRemote, PatSecret, TRUE, "request",
               "", UrlRemote),
       RuleObj(RuleFields, "r3", TypeBlock, PatHostB, TRUE, "request",
               "", NoUrl) >>
\* a disabled block rule, a map-local rule and a response breakpoint
DataLocal ==
    << RuleObj(RuleFields, "r1", TypeBlock, PatAll, FALSE, "request",
               "", NoUrl),
       RuleObj(RuleFields, "r2", TypeMapLocal, PatHostA, TRUE, "response",
               "file", NoUrl),
       RuleObj(RuleFields, "r3", TypeBreakpoint, PatSecret, TRUE, "response",
               "", NoUrl) >>
\* the "secret" URL is held at the request, then redirected and the
\* redirect target blocked; the other URL is served from a file and held at
\* the response
DataMixed ==
    << RuleObj(RuleFields, "r1", TypeBreakpoint, PatSecret, TRUE, "request",
               "", NoUrl),
       RuleObj(RuleFields, "r2", TypeMapRemote, PatSecret, TRUE, "request",
               "", UrlRemote),
       RuleObj(RuleFields, "r3", TypeBlock, PatHostB, TRUE, "request",
               "", NoUrl),
       RuleObj(RuleFields, "r4", TypeMapLocal, PatHostA, TRUE, "response",
               "file", NoUrl),
       RuleObj(RuleFields, "r5", TypeBreakpoint, PatAll, TRUE, "response",
               "", NoUrl) >>
DataEmpty == << >>
\* an object with only "type" and "urlPattern"
DataPartial ==
    << RuleObj({"type", "urlPattern"}, "", TypeBlock, PatSecret, FALSE, "",
               "", NoUrl) >>
DataMalformed ==
    << RuleObj(RuleFields, "r1", TypeBreakpoint, PatAll, TRUE, "request",
               "", NoUrl),
       NotAnObject >>

RulesDataPool == {DataBreakpoints, DataRemoteBlock, DataLocal, DataEmpty,
                  DataPartial, DataMalformed}

\* ------------------------------------------------------------------ Flow
\* A header mapping is a set of <<name, value>> pairs.
HeadersOrig == {<<"Host", "a">>, <<"Accept", "x">>}
HeadersMod == {<<"X", "1">>}
HeadersRespMod == {<<"Server", "t">>, <<"Y", "2">>}
HeadersResp == {<<"Server", "s">>}
HeadersLocal == {<<"Content-Type", "application/octet-stream">>}

NoResponse == [present |-> FALSE, status_code |-> 0, headers |-> {},
               body |-> "", local |-> FALSE]
\* the response the engine received from the server
OrigResponse == [present |-> TRUE, status_code |-> 200,
                 headers |-> HeadersResp, body |-> "orig", local |-> FALSE]
\* http.Response.make(status_code or 200, file content, headers or default)
LocalResponse == [present |-> TRUE, status_code |-> 200,
                  headers |-> HeadersLocal, body |-> "file", local |-> TRUE]

\* stage: where the engine is with the flow
\*   "new"       no hook called yet
\*   "request"   inside the request hook
\*   "req_done"  request hook returned
\*   "response"  inside the response hook
\*   "resp_done" response hook returned
\*   "err_done"  error hook returned
NewFlow(f) ==
    [stage |-> "new", url |-> FlowUrl(f), method |-> "GET",
     reqHeaders |-> HeadersOrig, reqBody |-> "", response |-> NoResponse,
     intercepted |-> FALSE, killed |-> FALSE, error |-> FALSE,
     blocked |-> FALSE]

\* -------------------------------------------------- resume: cmd["modified"]
\* has: keys present in modified; reqHas / respHas: keys present in
\* modified["request"] / modified["response"]; reqIsObject = FALSE models a
\* modified["request"] that is not a JSON object (e.g. a number).
ModNone ==
    [has |-> {}, reqIsObject |-> TRUE, reqHas |-> {}, respHas |-> {},
     method |-> "", url |-> NoUrl, reqHeaders |-> {}, reqBody |-> "",
     status_code |-> 0, respHeaders |-> {}, respBody |-> ""]
ModRequest ==
    [ModNone EXCEPT !.has = {"request"}, !.reqHas = {"headers", "url"},
                    !.url = UrlRemote, !.reqHeaders = HeadersMod]
ModResponse ==
    [ModNone EXCEPT !.has = {"response"}, !.respHas = {"headers", "body"},
                    !.respHeaders = HeadersRespMod, !.respBody = "edited"]
ModBadRequest ==
    [ModNone EXCEPT !.has = {"request"}, !.reqIsObject = FALSE]

ModPool == {ModNone, ModRequest, ModResponse, ModBadRequest}

\* headers.clear() keeping what was there
HeadersKept(h) == h

\* headers.clear()
HeadersClear(h) == {}

\* headers[k] = v: the fields named k are replaced by one field
HeaderSet(h, k, v) == {p \in h : p[1] # k} \cup {<<k, v>>}

\* for k, v in items: headers[k] = v
RECURSIVE HeadersSetEach(_, _)
HeadersSetEach(h, items) ==
    IF items = {} THEN h
    ELSE LET p == CHOOSE q \in items : TRUE IN
         HeadersSetEach(HeaderSet(h, p[1], p[2]), items \ {p})

\* Lines 178-180 and 189-191: clear, then set every given header
ReplaceHeaders(h, items) == HeadersSetEach(HeadersClear(h), items)

\* `if modified:` is false for None and for an empty object
ModTruthy(m) == m.has # {}

\* ApplyRequestMod assigning every request field from modified["request"],
\* an absent key giving the empty value
ApplyRequestModAssignsAll(fl, m) ==
    IF ~ModTruthy(m) \/ "request" \notin m.has THEN fl
    ELSE [fl EXCEPT !.method = m.method, !.url = m.url,
                    !.reqHeaders = ReplaceHeaders(@, m.reqHeaders),
                    !.reqBody = m.reqBody]

\* Lines 171-182: the request overrides
ApplyRequestMod(fl, m) ==
    IF ~ModTruthy(m) \/ "request" \notin m.has THEN fl
    ELSE [fl EXCEPT
            !.method = IF "method" \in m.reqHas THEN m.method ELSE @,
            !.url = IF "url" \in m.reqHas THEN m.url ELSE @,
            !.reqHeaders = IF "headers" \in m.reqHas
                           THEN ReplaceHeaders(@, m.reqHeaders) ELSE @,
            !.reqBody = IF "body" \in m.reqHas THEN m.reqBody ELSE @]

\* Lines 184-193: the response overrides, only when flow.response is set
ApplyResponseMod(fl, m) ==
    IF ~ModTruthy(m) \/ "response" \notin m.has \/ ~fl.response.present
    THEN fl
    ELSE [fl EXCEPT
            !.response.status_code =
                IF "status_code" \in m.respHas THEN m.status_code ELSE @,
            !.response.headers =
                IF "headers" \in m.respHas
                THEN ReplaceHeaders(@, m.respHeaders) ELSE @,
            !.response.body =
                IF "body" \in m.respHas THEN m.respBody ELSE @]

\* `"method" in req_mod` raises TypeError when req_mod is not a container
ModRaises(m) == ModTruthy(m) /\ "request" \in m.has /\ ~m.reqIsObject

\* ----------------------------------------------------------------- state
VARIABLES
    rules,              \* self.rules
    intercepted_flows,  \* self.intercepted_flows: flow id -> flow object
    ws_clients,         \* self.ws_clients
    loop,               \* self._loop is set (the server thread is running)
    flow,               \* the engine's Flow objects
    conn,               \* per connection: "new" (no handshake yet), "open",
                        \* "broken" (socket dead, _handle_client has not
                        \* yet left its read loop), "closed"
    ePc, eFlow,         \* engine context: position in the running hook
    wPc, wData,         \* connection context: position in updateRules
    queue,              \* coroutines submitted by run_coroutine_threadsafe
    lastBroadcast,      \* the last _broadcast call and its sends
    pongs,              \* pong replies sent to each peer
    commands,           \* messages read by _process_command so far
    wlog,               \* last outcome logged by the connection context
    flowOps,            \* which context has performed which Flow operation
    hold,               \* per flow: stores into / pops from / engine
                        \* instructions for its registry entry
    lastMatch,          \* the last _find_matching_rule call of the running
                        \* hook and its result
    gen                 \* the last rule set installed by updateRules

vars == <<rules, intercepted_flows, ws_clients, loop, flow, conn, ePc, eFlow,
          wPc, wData, queue, lastBroadcast, pongs, commands, wlog,
          flowOps, hold, lastMatch, gen>>

NoMatch == [valid |-> FALSE, idx |-> 0, url |-> NoUrl, phase |-> "",
            type |-> "", updating |-> FALSE]
NoBroadcast == [message |-> <<>>, recipients |-> {}, delivered |-> {}]
\* A log record: what was logged, and the flow id the message names.
NoId == <<"none", 0>>
Log(result, id) == <<result, id>>
NoLog == Log("", NoId)
NoHold == [stores |-> 0, pops |-> 0, instr |-> 0]
EmptyRegistry == [i \in {} |-> 0]

Init ==
    /\ rules = <<>>
    /\ intercepted_flows = EmptyRegistry
    /\ ws_clients = {}
    /\ loop = FALSE
    /\ flow = [f \in Flows |-> NewFlow(f)]
    /\ conn = [c \in Peers |-> "new"]
    /\ ePc = "idle" /\ eFlow = 0
    /\ wPc = "idle" /\ wData = <<>>
    /\ queue = <<>>
    /\ lastBroadcast = NoBroadcast
    /\ pongs = [c \in Peers |-> 0]
    /\ commands = 0
    /\ wlog = NoLog
    /\ flowOps = {}
    /\ hold = [f \in Flows |-> NoHold]
    /\ lastMatch = NoMatch
    /\ gen = <<>>

\* ------------------------------------------------------ registry (dict)
\* self.intercepted_flows[flow.id] = flow
RegistryStore(reg, id, f) ==
    [i \in DOMAIN reg \cup {id} |-> IF i = id THEN f ELSE reg[i]]
\* RegistryPop reading the entry without removing it (dict.get for dict.pop)
RegistryPopKeepsEntry(reg, id) == reg

\* the dict after self.intercepted_flows.pop(flow_id)
RegistryPop(reg, id) == [i \in DOMAIN reg \ {id} |-> reg[i]]
\* the value self.intercepted_flows.pop(flow_id) returns
RegistryGet(reg, id) == reg[id]

\* --------------------------------------------------------- Flow methods
\* flow.intercept()
FlowIntercept(fl) == [fl EXCEPT !.intercepted = TRUE]
\* flow.resume()
FlowResume(fl) == [fl EXCEPT !.intercepted = FALSE]
\* flow.kill(): the flow gets the "killed" error and is no longer paused
FlowKill(fl) == [fl EXCEPT !.killed = TRUE, !.intercepted = FALSE]

Op(op, ctx) == [op |-> op, ctx |-> ctx]

\* ------------------------------------------------------- _serialize_flow
_serialize_flow(f, fl, phase) ==
    [type |-> "flow", phase |-> phase, id |-> FlowId(f),
     intercepted |-> fl.intercepted,
     request |-> [method |-> fl.method, url |-> fl.url,
                  headers |-> fl.reqHeaders, body |-> fl.reqBody],
     response |-> fl.response,
     error |-> fl.killed \/ fl.error]

\* _send_flow_to_clients that keeps at most one pending coroutine: an event
\* is dropped while an earlier one is still waiting for the loop
SendFlowDropsWhenPending(q, clients, loopSet, f, fl, phase) ==
    IF clients = {} \/ ~loopSet \/ q # <<>> THEN q
    ELSE Append(q, _serialize_flow(f, fl, phase))

\* _send_flow_to_clients: the queue of the loop after the call
_send_flow_to_clients(q, clients, loopSet, f, fl, phase) ==
    IF clients = {} THEN q
    ELSE IF loopSet THEN Append(q, _serialize_flow(f, fl, phase))
    ELSE q

\* One _find_matching_rule call made by a hook: its arguments, its result and
\* whether _handle_update_rules was running at the time.
MatchCall(f, phase, rule_type) ==
    [valid |-> TRUE,
     idx |-> _find_matching_rule(rules, flow[f].url, phase, rule_type),
     url |-> flow[f].url, phase |-> phase, type |-> rule_type,
     updating |-> wPc = "decoding"]

connVars == <<ws_clients, loop, conn, wPc, wData, lastBroadcast,
              pongs, commands, wlog>>

\* --------------------------------------------------------- request hook
\* Lines 334-339
RequestBreakpoint(f) ==
    /\ ePc = "idle" /\ flow[f].stage = "new"
    /\ LET m == MatchCall(f, "request", TypeBreakpoint) IN
       /\ lastMatch' = m
       /\ IF m.idx # 0
          THEN /\ flow' = [flow EXCEPT ![f] =
                              [FlowIntercept(@) EXCEPT !.stage = "request"]]
               /\ intercepted_flows' =
                      RegistryStore(intercepted_flows, FlowId(f), f)
               /\ hold' = [hold EXCEPT ![f] =
                              [stores |-> @.stores + 1, pops |-> 0,
                               instr |-> 0]]
               /\ flowOps' = flowOps \cup {Op("intercept", "engine")}
          ELSE /\ flow' = [flow EXCEPT ![f].stage = "request"]
               /\ UNCHANGED <<intercepted_flows, hold, flowOps>>
    /\ ePc' = "req_map" /\ eFlow' = f
    /\ UNCHANGED <<rules, gen, queue>>
    /\ UNCHANGED connVars

\* Lines 341-346
RequestMapRemote ==
    /\ ePc = "req_map"
    /\ LET f == eFlow
           m == MatchCall(f, "request", TypeMapRemote) IN
       /\ lastMatch' = m
       /\ IF m.idx # 0 /\ rules[m.idx].target_url # NoUrl
          THEN /\ flow' = [flow EXCEPT ![f].url = rules[m.idx].target_url]
               /\ flowOps' = flowOps \cup {Op("set_url", "engine")}
          ELSE UNCHANGED <<flow, flowOps>>
    /\ ePc' = "req_block"
    /\ UNCHANGED <<rules, gen, queue, intercepted_flows, hold, eFlow>>
    /\ UNCHANGED connVars

\* RequestBlock without the `return` of line 353: the hook goes on to line 356
RequestBlockNoReturn ==
    /\ ePc = "req_block"
    /\ LET f == eFlow
           m == MatchCall(f, "request", TypeBlock) IN
       /\ lastMatch' = m
       /\ IF m.idx # 0
          THEN /\ flow' = [flow EXCEPT ![f] =
                              [FlowKill(@) EXCEPT !.blocked = TRUE]]
               /\ flowOps' = flowOps \cup {Op("kill", "engine")}
          ELSE UNCHANGED <<flow, flowOps>>
    /\ ePc' = "req_send"
    /\ UNCHANGED <<rules, gen, queue, intercepted_flows, hold, eFlow>>
    /\ UNCHANGED connVars

\* Lines 348-353
RequestBlock ==
    /\ ePc = "req_block"
    /\ LET f == eFlow
           m == MatchCall(f, "request", TypeBlock) IN
       /\ lastMatch' = m
       /\ IF m.idx # 0
          THEN /\ flow' = [flow EXCEPT ![f] =
                              [FlowKill(@) EXCEPT !.stage = "req_done",
                                                  !.blocked = TRUE]]
               /\ flowOps' = flowOps \cup {Op("kill", "engine")}
               /\ ePc' = "idle"
          ELSE /\ UNCHANGED <<flow, flowOps>>
               /\ ePc' = "req_send"
    /\ UNCHANGED <<rules, gen, queue, intercepted_flows, hold, eFlow>>
    /\ UNCHANGED connVars

\* RequestSend writing the event to the sockets itself, inside the hook,
\* instead of submitting _broadcast to the loop
RequestSendDirect ==
    /\ ePc = "req_send"
    /\ LET f == eFlow IN
       /\ lastBroadcast' =
             IF ws_clients = {} THEN lastBroadcast
             ELSE [message |-> <<_serialize_flow(f, flow[f], "request")>>,
                   recipients |-> ws_clients,
                   delivered |-> ws_clients]
       /\ flow' = [flow EXCEPT ![f].stage = "req_done"]
    /\ ePc' = "idle"
    /\ lastMatch' = NoMatch
    /\ UNCHANGED <<rules, gen, intercepted_flows, hold, flowOps, eFlow, queue>>
    /\ UNCHANGED <<ws_clients, loop, conn, wPc, wData, pongs, commands, wlog>>

\* Lines 355-356
RequestSend ==
    /\ ePc = "req_send"
    /\ LET f == eFlow IN
       /\ queue' = _send_flow_to_clients(queue, ws_clients, loop, f, flow[f],
                                         "request")
       /\ flow' = [flow EXCEPT ![f].stage = "req_done"]
    /\ ePc' = "idle"
    /\ lastMatch' = NoMatch
    /\ UNCHANGED <<rules, gen, intercepted_flows, hold, flowOps, eFlow>>
    /\ UNCHANGED connVars

\* -------------------------------------------------------- response hook
\* ResponseMapLocal without the try / except of lines 363-373: a failing read
\* ends the hook
ResponseMapLocalRaises(f) ==
    /\ ePc = "idle" /\ flow[f].stage = "req_done"
    /\ ~flow[f].intercepted /\ ~flow[f].killed /\ ~flow[f].error
    /\ LET m == MatchCall(f, "response", TypeMapLocal) IN
       /\ lastMatch' = m
       /\ IF m.idx # 0 /\ rules[m.idx].file_path # ""
          THEN \E ok \in BOOLEAN :
                 /\ flow' = [flow EXCEPT
                        ![f].stage = IF ok THEN "response" ELSE "resp_done",
                        ![f].response = IF ok THEN LocalResponse
                                        ELSE OrigResponse]
                 /\ flowOps' = IF ok
                               THEN flowOps \cup {Op("set_response", "engine")}
                               ELSE flowOps
                 /\ ePc' = IF ok THEN "resp_bp" ELSE "idle"
          ELSE /\ flow' = [flow EXCEPT ![f].stage = "response",
                                       ![f].response = OrigResponse]
               /\ ePc' = "resp_bp"
               /\ UNCHANGED flowOps
    /\ eFlow' = f
    /\ UNCHANGED <<rules, gen, queue, intercepted_flows, hold>>
    /\ UNCHANGED connVars

\* Lines 360-373.  The engine calls the hook once it has the response of a
\* flow that is neither paused nor terminated.  Reading the file succeeds
\* (ok) or raises, which the hook catches.
ResponseMapLocal(f) ==
    /\ ePc = "idle" /\ flow[f].stage = "req_done"
    /\ ~flow[f].intercepted /\ ~flow[f].killed /\ ~flow[f].error
    /\ LET m == MatchCall(f, "response", TypeMapLocal) IN
       /\ lastMatch' = m
       /\ IF m.idx # 0 /\ rules[m.idx].file_path # ""
          THEN \E ok \in BOOLEAN :
                 /\ flow' = [flow EXCEPT
                        ![f].stage = "response",
                        ![f].response = IF ok THEN LocalResponse
                                        ELSE OrigResponse]
                 /\ flowOps' = IF ok
                               THEN flowOps \cup {Op("set_response", "engine")}
                               ELSE flowOps
          ELSE /\ flow' = [flow EXCEPT ![f].stage = "response",
                                       ![f].response = OrigResponse]
               /\ UNCHANGED flowOps
    /\ ePc' = "resp_bp" /\ eFlow' = f
    /\ UNCHANGED <<rules, gen, queue, intercepted_flows, hold>>
    /\ UNCHANGED connVars

\* Lines 375-380
ResponseBreakpoint ==
    /\ ePc = "resp_bp"
    /\ LET f == eFlow
           m == MatchCall(f, "response", TypeBreakpoint) IN
       /\ lastMatch' = m
       /\ IF m.idx # 0
          THEN /\ flow' = [flow EXCEPT ![f] = FlowIntercept(@)]
               /\ intercepted_flows' =
                      RegistryStore(intercepted_flows, FlowId(f), f)
               /\ hold' = [hold EXCEPT ![f] =
                              [stores |-> @.stores + 1, pops |-> 0,
                               instr |-> 0]]
               /\ flowOps' = flowOps \cup {Op("intercept", "engine")}
          ELSE UNCHANGED <<flow, intercepted_flows, hold, flowOps>>
    /\ ePc' = "resp_send"
    /\ UNCHANGED <<rules, gen, queue, eFlow>>
    /\ UNCHANGED connVars

\* Lines 382-383
ResponseSend ==
    /\ ePc = "resp_send"
    /\ LET f == eFlow IN
       /\ queue' = _send_flow_to_clients(queue, ws_clients, loop, f, flow[f],
                                         "response")
       /\ flow' = [flow EXCEPT ![f].stage = "resp_done"]
    /\ ePc' = "idle"
    /\ lastMatch' = NoMatch
    /\ UNCHANGED <<rules, gen, intercepted_flows, hold, flowOps, eFlow>>
    /\ UNCHANGED connVars

\* ----------------------------------------------------------- error hook
\* Lines 385-387.  The engine reports a flow that was terminated.
ErrorHook(f) ==
    /\ ePc = "idle"
    /\ flow[f].stage \in {"req_done", "resp_done"}
    /\ ~flow[f].intercepted
    /\ flow[f].killed
    /\ LET fl == [flow[f] EXCEPT !.error = TRUE] IN
       /\ queue' = _send_flow_to_clients(queue, ws_clients, loop, f, fl,
                                         "error")
       /\ flow' = [flow EXCEPT ![f] = [fl EXCEPT !.stage = "err_done"]]
    /\ UNCHANGED <<rules, gen, intercepted_flows, hold, flowOps, ePc, eFlow,
                   lastMatch>>
    /\ UNCHANGED connVars

\* The engine releases a paused flow by itself (another addon or the
\* engine's own user interface resumes it); the addon is not told.
EngineRelease(f) ==
    /\ ePc = "idle"
    /\ flow[f].intercepted
    /\ flow' = [flow EXCEPT ![f] = FlowResume(@)]
    /\ UNCHANGED <<rules, gen, queue, intercepted_flows, hold, flowOps, ePc,
                   eFlow, lastMatch>>
    /\ UNCHANGED connVars

\* --------------------------------------------------- connection context
engineVars == <<ePc, eFlow, lastMatch>>

\* Lines 100-108 and 115-121: the server thread sets self._loop and serves
StartServer ==
    /\ ~loop
    /\ loop' = TRUE
    /\ UNCHANGED <<rules, gen, intercepted_flows, ws_clients, flow, conn,
                   wPc, wData, queue, lastBroadcast, pongs, commands,
                   wlog, flowOps, hold>>
    /\ UNCHANGED engineVars

\* Lines 125-128: a peer completed the handshake.  Connections are numbered
\* in the order in which they are opened.
Connect(c) ==
    /\ loop /\ wPc = "idle"
    /\ conn[c] = "new"
    /\ \A d \in Peers : d < c => conn[d] # "new"
    /\ ws_clients' = ws_clients \cup {c}
    /\ conn' = [conn EXCEPT ![c] = "open"]
    /\ UNCHANGED <<rules, gen, intercepted_flows, loop, flow, wPc, wData,
                   queue, lastBroadcast, pongs, commands, wlog,
                   flowOps, hold>>
    /\ UNCHANGED engineVars

\* The peer's socket closes or fails; the read loop has not noticed yet.
PeerBreak(c) ==
    /\ conn[c] = "open"
    /\ conn' = [conn EXCEPT ![c] = "broken"]
    /\ UNCHANGED <<rules, gen, intercepted_flows, ws_clients, loop, flow,
                   wPc, wData, queue, lastBroadcast, pongs, commands,
                   wlog, flowOps, hold>>
    /\ UNCHANGED engineVars

\* Disconnect that resumes and forgets every held flow when the last peer
\* leaves
DisconnectReleasesHeld(c) ==
    /\ loop /\ wPc = "idle"
    /\ conn[c] = "broken"
    /\ ws_clients' = ws_clients \ {c}
    /\ conn' = [conn EXCEPT ![c] = "closed"]
    /\ IF ws_clients \ {c} = {}
       THEN /\ intercepted_flows' = EmptyRegistry
            /\ flow' = [f \in Flows |->
                           IF FlowId(f) \in DOMAIN intercepted_flows
                           THEN FlowResume(flow[f]) ELSE flow[f]]
       ELSE UNCHANGED <<intercepted_flows, flow>>
    /\ UNCHANGED <<rules, gen, loop, wPc, wData, queue, lastBroadcast, pongs,
                   commands, wlog, flowOps, hold>>
    /\ UNCHANGED engineVars

\* Lines 133-137: the read loop ends, finally: discard
Disconnect(c) ==
    /\ loop /\ wPc = "idle"
    /\ conn[c] = "broken"
    /\ ws_clients' = ws_clients \ {c}
    /\ conn' = [conn EXCEPT ![c] = "closed"]
    /\ UNCHANGED <<rules, gen, intercepted_flows, loop, flow, wPc, wData,
                   queue, lastBroadcast, pongs, commands, wlog,
                   flowOps, hold>>
    /\ UNCHANGED engineVars

\* Lines 131-132: the read loop of an open peer hands the next message to
\* _process_command
CanReceive(c) ==
    /\ loop /\ wPc = "idle" /\ conn[c] = "open"
    /\ commands < MaxCommands

\* Lines 161-198, reached from line 146
HandleResume(c, id, m) ==
    /\ CanReceive(c)
    /\ commands' = commands + 1
    /\ IF id \in DOMAIN intercepted_flows
       THEN LET f == RegistryGet(intercepted_flows, id) IN
            /\ intercepted_flows' = RegistryPop(intercepted_flows, id)
            /\ IF ModRaises(m)
               THEN /\ wlog' = Log("error", id)
                    /\ hold' = [hold EXCEPT ![f].pops = @ + 1]
                    /\ UNCHANGED <<flow, flowOps>>
               ELSE /\ flow' = [flow EXCEPT ![f] =
                          FlowResume(ApplyResponseMod(
                                         ApplyRequestMod(@, m), m))]
                    /\ flowOps' = flowOps \cup {Op("resume", "conn")} \cup
                          (IF ApplyResponseMod(ApplyRequestMod(flow[f], m), m)
                                 # flow[f]
                           THEN {Op("modify", "conn")} ELSE {})
                    /\ hold' = [hold EXCEPT ![f].pops = @ + 1,
                                            ![f].instr = @ + 1]
                    /\ wlog' = Log("resumed", id)
       ELSE /\ wlog' = Log("not_found", id)
            /\ UNCHANGED <<intercepted_flows, flow, flowOps, hold>>
    /\ UNCHANGED <<rules, gen, ws_clients, loop, conn, wPc, wData,
                   queue, lastBroadcast, pongs>>
    /\ UNCHANGED engineVars

\* Lines 200-209, reached from line 148
HandleKill(c, id) ==
    /\ CanReceive(c)
    /\ commands' = commands + 1
    /\ IF id \in DOMAIN intercepted_flows
       THEN LET f == RegistryGet(intercepted_flows, id) IN
            /\ intercepted_flows' = RegistryPop(intercepted_flows, id)
            /\ flow' = [flow EXCEPT ![f] = FlowKill(@)]
            /\ flowOps' = flowOps \cup {Op("kill", "conn")}
            /\ hold' = [hold EXCEPT ![f].pops = @ + 1, ![f].instr = @ + 1]
            /\ wlog' = Log("killed", id)
       ELSE /\ wlog' = Log("not_found", id)
            /\ UNCHANGED <<intercepted_flows, flow, flowOps, hold>>
    /\ UNCHANGED <<rules, gen, ws_clients, loop, conn, wPc, wData,
                   queue, lastBroadcast, pongs>>
    /\ UNCHANGED engineVars

\* RulesWhileDecoding for an update that fills self.rules in place
\* (self.rules.clear(), then one append per decoded element)
RulesFilledInPlace(current, partial) == partial

\* Lines 211-229, reached from line 150.  The list comprehension builds a
\* new list and only then is self.rules rebound: while it runs, self.rules
\* still names the previous list.  The engine context may run between the
\* start of the comprehension and the assignment.
RulesWhileDecoding(current, partial) == current

\* Line 213 and the start of the comprehension
UpdateRulesBegin(c, data) ==
    /\ CanReceive(c)
    /\ commands' = commands + 1
    /\ wPc' = "decoding" /\ wData' = data
    /\ rules' = RulesWhileDecoding(rules, <<>>)
    /\ UNCHANGED <<gen, intercepted_flows, ws_clients, loop, flow, conn,
                   queue, lastBroadcast, pongs, wlog, flowOps, hold>>
    /\ UNCHANGED engineVars

\* Lines 214-229: the comprehension ends and self.rules is rebound; r.get
\* raises when an element is not an object, and _process_command (line 158)
\* logs the exception.
UpdateRulesAssign ==
    /\ wPc = "decoding"
    /\ IF AllObjects(wData)
       THEN /\ rules' = DecodeAll(wData)
            /\ gen' = DecodeAll(wData)
            /\ wlog' = Log("updated", NoId)
       ELSE /\ wlog' = Log("error", NoId)
            /\ UNCHANGED <<rules, gen>>
    /\ wPc' = "idle" /\ wData' = <<>>
    /\ UNCHANGED <<intercepted_flows, ws_clients, loop, flow, conn, queue,
                   lastBroadcast, pongs, commands, flowOps, hold>>
    /\ UNCHANGED engineVars

\* Ping answering through _broadcast instead of websocket.send: every
\* connected peer gets the pong
PingAnswersAll(c) ==
    /\ CanReceive(c)
    /\ commands' = commands + 1
    /\ pongs' = [d \in Peers |->
                    IF d \in ws_clients THEN pongs[d] + 1 ELSE pongs[d]]
    /\ wlog' = Log("pong", NoId)
    /\ UNCHANGED <<rules, gen, intercepted_flows, ws_clients, loop, flow,
                   conn, wPc, wData, queue, lastBroadcast, flowOps,
                   hold>>
    /\ UNCHANGED engineVars

\* Lines 151-152
Ping(c) ==
    /\ CanReceive(c)
    /\ commands' = commands + 1
    /\ pongs' = [pongs EXCEPT ![c] = @ + 1]
    /\ wlog' = Log("pong", NoId)
    /\ UNCHANGED <<rules, gen, intercepted_flows, ws_clients, loop, flow,
                   conn, wPc, wData, queue, lastBroadcast, flowOps,
                   hold>>
    /\ UNCHANGED engineVars

\* Lines 153-154
UnknownCommand(c) ==
    /\ CanReceive(c)
    /\ commands' = commands + 1
    /\ wlog' = Log("unknown", NoId)
    /\ UNCHANGED <<rules, gen, intercepted_flows, ws_clients, loop, flow,
                   conn, wPc, wData, queue, lastBroadcast, pongs,
                   flowOps, hold>>
    /\ UNCHANGED engineVars

\* MalformedMessage without the except clauses of _process_command: the
\* exception leaves the read loop of _handle_client, whose finally clause
\* discards the peer
MalformedMessageEndsConnection(c) ==
    /\ CanReceive(c)
    /\ commands' = commands + 1
    /\ wlog' = Log("invalid_json", NoId)
    /\ ws_clients' = ws_clients \ {c}
    /\ conn' = [conn EXCEPT ![c] = "closed"]
    /\ UNCHANGED <<rules, gen, intercepted_flows, loop, flow, wPc, wData,
                   queue, lastBroadcast, pongs, flowOps, hold>>
    /\ UNCHANGED engineVars

\* Lines 142 and 156-157: json.loads raises
MalformedMessage(c) ==
    /\ CanReceive(c)
    /\ commands' = commands + 1
    /\ wlog' = Log("invalid_json", NoId)
    /\ UNCHANGED <<rules, gen, intercepted_flows, ws_clients, loop, flow,
                   conn, wPc, wData, queue, lastBroadcast, pongs,
                   flowOps, hold>>
    /\ UNCHANGED engineVars

\* ------------------------------------------------------------ _broadcast
Broken == {c \in Peers : conn[c] = "broken"}

\* GatherDelivered for a gather without return_exceptions: the first failing
\* send ends the broadcast
GatherAbortsOnFailure(recipients, broken) ==
    IF recipients \cap broken # {} THEN {} ELSE recipients

\* Lines 272-275: gather(..., return_exceptions=True) runs every send; the
\* peers whose send completes are those whose socket is not broken.
GatherDelivered(recipients, broken) == recipients \ broken

\* Lines 269-275, the coroutine submitted at lines 264-267; the recipients
\* are the members of self.ws_clients when the coroutine runs.
Broadcast ==
    /\ loop /\ wPc = "idle"
    /\ queue # <<>>
    /\ lastBroadcast' =
          [message |-> <<Head(queue)>>,
           recipients |-> ws_clients,
           delivered |-> GatherDelivered(ws_clients, Broken)]
    /\ queue' = Tail(queue)
    /\ UNCHANGED <<rules, gen, intercepted_flows, ws_clients, loop, flow,
                   conn, wPc, wData, pongs, commands, wlog, flowOps,
                   hold>>
    /\ UNCHANGED engineVars

\* ------------------------------------------------------- specifications
CommandIds == FlowIds \cup {UnknownId}

Hooks ==
    \/ \E f \in Flows : RequestBreakpoint(f)
    \/ RequestMapRemote
    \/ RequestBlock
    \/ RequestSend
    \/ \E f \in Flows : ResponseMapLocal(f)
    \/ ResponseBreakpoint
    \/ ResponseSend
    \/ \E f \in Flows : ErrorHook(f)

Commands ==
    \/ \E c \in Peers, id \in CommandIds, m \in ModPool : HandleResume(c, id, m)
    \/ \E c \in Peers, id \in CommandIds : HandleKill(c, id)
    \/ \E c \in Peers, data \in RulesDataPool : UpdateRulesBegin(c, data)
    \/ UpdateRulesAssign
    \/ \E c \in Peers : Ping(c)
    \/ \E c \in Peers : UnknownCommand(c)
    \/ \E c \in Peers : MalformedMessage(c)

\* The whole system from construction.
Next ==
    \/ Hooks
    \/ StartServer
    \/ \E c \in Peers : Connect(c)
    \/ \E c \in Peers : PeerBreak(c)
    \/ \E c \in Peers : Disconnect(c)
    \/ Commands
    \/ Broadcast

Spec == Init /\ [][Next]_vars

\* The system some time after start-up: the server thread runs and one
\* updateRules command has installed DataMixed.
InitLoaded ==
    /\ rules = DecodeAll(DataMixed)
    /\ gen = DecodeAll(DataMixed)
    /\ intercepted_flows = EmptyRegistry
    /\ ws_clients = {}
    /\ loop = TRUE
    /\ flow = [f \in Flows |-> NewFlow(f)]
    /\ conn = [c \in Peers |-> "new"]
    /\ ePc = "idle" /\ eFlow = 0
    /\ wPc = "idle" /\ wData = <<>>
    /\ queue = <<>>
    /\ lastBroadcast = NoBroadcast
    /\ pongs = [c \in Peers |-> 0]
    /\ commands = 0
    /\ wlog = Log("updated", NoId)
    /\ flowOps = {}
    /\ hold = [f \in Flows |-> NoHold]
    /\ lastMatch = NoMatch

\* Peers whose connections stay up.
NextLoaded ==
    \/ Hooks
    \/ \E c \in Peers : Connect(c)
    \/ Commands
    \/ Broadcast

SpecLoaded == InitLoaded /\ [][NextLoaded]_vars

\* The same with an engine that may release a paused flow itself.
NextEngineRelease ==
    \/ NextLoaded
    \/ \E f \in Flows : EngineRelease(f)

SpecEngineRelease == InitLoaded /\ [][NextEngineRelease]_vars

\* Peers whose connections may fail, sending resume and kill commands.
NextPeers ==
    \/ Hooks
    \/ \E c \in Peers : Connect(c)
    \/ \E c \in Peers : PeerBreak(c)
    \/ \E c \in Peers : Disconnect(c)
    \/ \E c \in Peers, id \in CommandIds, m \in ModPool : HandleResume(c, id, m)
    \/ \E c \in Peers, id \in CommandIds : HandleKill(c, id)
    \/ Broadcast

SpecPeers == InitLoaded /\ [][NextPeers]_vars

\* Peers whose connections may fail, sending resume without modifications,
\* kill, updateRules and ping.
AbandonDataPool == {DataBreakpoints}

NextAbandon ==
    \/ Hooks
    \/ \E c \in Peers : Connect(c)
    \/ \E c \in Peers : PeerBreak(c)
    \/ \E c \in Peers : Disconnect(c)
    \/ \E c \in Peers, id \in CommandIds : HandleResume(c, id, ModNone)
    \/ \E c \in Peers, id \in CommandIds : HandleKill(c, id)
    \/ \E c \in Peers, data \in AbandonDataPool : UpdateRulesBegin(c, data)
    \/ UpdateRulesAssign
    \/ \E c \in Peers : Ping(c)
    \/ Broadcast

SpecAbandon == InitLoaded /\ [][NextAbandon]_vars

\* ------------------------------------------------ the matcher on its own
\* Every rule list of up to MaxRules rules over these field values.
RuleUniverse ==
    {ProxyRule("r", t, p, e, ph, "", NoUrl) :
        t \in {TypeBreakpoint, TypeBlock}, p \in {PatAll, PatSecret, PatHostB},
        e \in BOOLEAN, ph \in Phases}

RuleLists == UNION {[1..n -> RuleUniverse] : n \in 0..MaxRules}

InitMatch ==
    /\ rules \in RuleLists
    /\ gen = rules
    /\ intercepted_flows = EmptyRegistry
    /\ ws_clients = {}
    /\ loop = TRUE
    /\ flow = [f \in Flows |-> NewFlow(f)]
    /\ conn = [c \in Peers |-> "new"]
    /\ ePc = "idle" /\ eFlow = 0
    /\ wPc = "idle" /\ wData = <<>>
    /\ queue = <<>>
    /\ lastBroadcast = NoBroadcast
    /\ pongs = [c \in Peers |-> 0]
    /\ commands = 0
    /\ wlog = Log("updated", NoId)
    /\ flowOps = {}
    /\ hold = [f \in Flows |-> NoHold]
    /\ lastMatch = NoMatch

\* Lines 238-252: one call of _find_matching_rule
FindMatchingRule(f, phase, rule_type) ==
    /\ lastMatch' = MatchCall(f, phase, rule_type)
    /\ UNCHANGED <<rules, intercepted_flows, ws_clients, loop, flow, conn,
                   ePc, eFlow, wPc, wData, queue, lastBroadcast, pongs,
                   commands, wlog, flowOps, hold, gen>>

NextMatch ==
    \E f \in Flows, phase \in Phases, rule_type \in RuleTypes \cup {NoType} :
        FindMatchingRule(f, phase, rule_type)

SpecMatch == InitMatch /\ [][NextMatch]_vars

\* ================================================================ claims

\* C1: when a resume and a kill for the same held flow id are both
\* processed, exactly one of them removes the registry entry and instructs
\* the engine, the other observes "not found": every removal of a flow's
\* entry comes with exactly one engine instruction (resume or kill), and an
\* entry is removed at most once per registration.
C1_ExactlyOneReleaseInstructsEngine ==
    \A f \in Flows :
        /\ hold[f].pops <= 1
        /\ hold[f].instr <= 1
        /\ hold[f].pops = 1 => hold[f].instr = 1

QualifyingIndices(rs, url, phase, rule_type) ==
    {i \in 1..Len(rs) :
        /\ rs[i].enabled = TRUE
        /\ rs[i].phase = phase
        /\ rule_type = NoType \/ rs[i].type = rule_type
        /\ _matches_pattern(url, rs[i].url_pattern)}

\* C3: match returns the qualifying rule of smallest index, and none exactly
\* when no rule qualifies; a disabled rule is never returned.
C3_FirstQualifyingRule ==
    lastMatch.valid =>
        LET Q == QualifyingIndices(rules, lastMatch.url, lastMatch.phase,
                                   lastMatch.type) IN
        /\ Q = {} <=> lastMatch.idx = 0
        /\ Q # {} => /\ lastMatch.idx \in Q
                     /\ \A j \in Q : lastMatch.idx <= j
                     /\ rules[lastMatch.idx].enabled

\* The second rule is returned because the first, which matches in every
\* other respect, is disabled.
C3_Witness ==
    /\ lastMatch.valid /\ lastMatch.idx = 2
    /\ ~rules[1].enabled
    /\ rules[1].phase = lastMatch.phase
    /\ rules[1].type = lastMatch.type
    /\ _matches_pattern(lastMatch.url, rules[1].url_pattern)

\* C4: every operation on a Flow (intercept, URL or response replacement,
\* field overrides, resume, kill) is performed in the engine context, never
\* in the connection context.
C4_FlowOpsOnlyInEngineContext ==
    \A o \in flowOps : o.ctx = "engine"

\* A hook returns: the flow reaches the stage that follows the hook.
HookReturns(f) ==
    /\ flow'[f].stage # flow[f].stage
    /\ flow'[f].stage \in {"req_done", "resp_done", "err_done"}

\* A message is written to the sockets of the connected peers.
SocketSend == lastBroadcast' # lastBroadcast

\* The envelopes of flow f and the given phase among the pending hand-offs.
Pending(q, f, phase) ==
    {i \in 1..Len(q) : q[i].id = FlowId(f) /\ q[i].phase = phase}

\* C5: every flow event is handed off to the connection context before it is
\* written to a socket (what is written is the oldest pending hand-off, and
\* the step that writes it is not a step of the engine context), and a hook
\* returns without waiting for delivery (the step on which it returns writes
\* to no socket and leaves the event, if any, pending).
C5_EventsHandedOffNotSent ==
    /\ [][SocketSend =>
            /\ queue # <<>>
            /\ lastBroadcast'.message = <<Head(queue)>>
            /\ queue' = Tail(queue)
            /\ UNCHANGED <<ePc, eFlow, flow, lastMatch>>]_vars
    /\ [][\A f \in Flows : HookReturns(f) =>
            /\ ~SocketSend
            /\ ePc' = "idle"
            /\ \/ queue' = queue
               \/ /\ Len(queue') = Len(queue) + 1
                  /\ SubSeq(queue', 1, Len(queue)) = queue
                  /\ queue'[Len(queue')].id = FlowId(f)]_vars

\* The request hook of a flow has returned with peers connected while the
\* flow's event is still waiting to be sent.
C5_Witness ==
    \E f \in Flows :
        /\ ePc = "idle" /\ flow[f].stage = "req_done"
        /\ ws_clients # {}
        /\ Pending(queue, f, "request") # {}
        /\ lastBroadcast = NoBroadcast

\* The result of a match over a complete rule list: the first qualifying
\* rule, if any.
MatchResult(rs, url, phase, rule_type) ==
    LET Q == QualifyingIndices(rs, url, phase, rule_type) IN
    IF Q = {} THEN <<>>
    ELSE <<rs[CHOOSE i \in Q : \A j \in Q : i <= j]>>

\* The rule set a running updateRules command is about to install.
IncomingRules ==
    IF wPc = "decoding" /\ AllObjects(wData) THEN DecodeAll(wData) ELSE gen

\* C6: while an updateRules command is being processed, each match call of a
\* hook returns what a match over the complete old rule set or over the
\* complete new rule set returns.
C6_MatchSeesOneGeneration ==
    [][(lastMatch' # lastMatch /\ lastMatch'.valid) =>
          LET m == lastMatch'
              got == IF m.idx = 0 THEN <<>> ELSE <<rules[m.idx]>>
          IN got \in {MatchResult(gen, m.url, m.phase, m.type),
                      MatchResult(IncomingRules, m.url, m.phase, m.type)}]_vars

\* A match ran while an update was being decoded and returned a rule, and
\* the old and the new rule set give different results for it.
C6_Witness ==
    /\ lastMatch.valid /\ lastMatch.updating /\ lastMatch.idx # 0
    /\ wPc = "decoding" /\ AllObjects(wData)
    /\ MatchResult(gen, lastMatch.url, lastMatch.phase, lastMatch.type)
         # MatchResult(DecodeAll(wData), lastMatch.url, lastMatch.phase,
                       lastMatch.type)

\* C7: registering a flow under an id that already has a registry entry
\* fails, i.e. no registration is carried out for an id while the registry
\* holds an entry for it.
C7_RegisterFailsOnExistingEntry ==
    [][\A f \in Flows :
          FlowId(f) \in DOMAIN intercepted_flows
          => hold'[f].stores = hold[f].stores]_vars

\* C8: when the block check of the request hook finds an enabled
\* request-phase block rule matching the flow, the flow is terminated in that
\* step, the hook returns at once without handing off an event, and no
\* request-phase event of a blocked flow is ever pending or sent.
C8_BlockTerminatesWithoutEvent ==
    /\ [][(ePc = "req_block" /\ ePc' # "req_block"
           /\ QualifyingIndices(rules, flow[eFlow].url, "request", TypeBlock)
                # {})
          => /\ flow'[eFlow].killed /\ flow'[eFlow].blocked
             /\ flow'[eFlow].stage = "req_done"
             /\ ePc' = "idle"
             /\ queue' = queue /\ ~SocketSend]_vars
    /\ [](\A f \in Flows : flow[f].blocked =>
             /\ flow[f].killed
             /\ flow[f].stage \notin {"new", "request", "response",
                                      "resp_done"}
             /\ Pending(queue, f, "request") = {}
             /\ Pending(lastBroadcast.message, f, "request") = {})

\* A flow was blocked while a peer was connected, and nothing was handed off
\* or sent.
C8_Witness ==
    \E f \in Flows :
        /\ flow[f].blocked /\ flow[f].stage = "req_done"
        /\ ws_clients # {}
        /\ lastMatch.valid /\ lastMatch.type = TypeBlock /\ lastMatch.idx # 0
        /\ queue = <<>> /\ lastBroadcast = NoBroadcast

\* The phase of the event a returning hook emits.
PhaseOf(stage) ==
    IF stage = "req_done" THEN "request"
    ELSE IF stage = "resp_done" THEN "response" ELSE "error"

\* C9: a hook that returns without having blocked the flow hands off, when
\* peers are connected, exactly one envelope carrying the flow's id, the
\* hook's phase and the flow's state; a hand-off leaves the queue only by
\* being sent, as it was handed off, to every member of the connection set,
\* and it reaches each of them whose socket is alive; a request that matches
\* no breakpoint rule is not held, not registered, and its envelope says so.
C9_EveryEventBroadcastToLivePeers ==
    /\ [][\A f \in Flows :
            (/\ HookReturns(f)
             /\ ~(flow'[f].blocked /\ flow'[f].stage = "req_done")
             /\ ws_clients # {}) =>
               /\ Len(queue') = Len(queue) + 1
               /\ SubSeq(queue', 1, Len(queue)) = queue
               /\ LET e == queue'[Len(queue')] IN
                  /\ e.type = "flow" /\ e.id = FlowId(f)
                  /\ e.phase = PhaseOf(flow'[f].stage)
                  /\ e.intercepted = flow'[f].intercepted
                  /\ e.request.url = flow'[f].url
                  /\ e.response = flow'[f].response]_vars
    /\ [][queue # <<>> /\ queue' = Tail(queue) =>
            /\ lastBroadcast'.message = <<Head(queue)>>
            /\ lastBroadcast'.recipients = ws_clients
            /\ \A c \in Peers : conn[c] = "open" =>
                  c \in lastBroadcast'.delivered]_vars
    /\ [][\/ queue' = queue
          \/ queue # <<>> /\ queue' = Tail(queue)
          \/ /\ Len(queue') = Len(queue) + 1
             /\ SubSeq(queue', 1, Len(queue)) = queue]_vars
    /\ [][\A f \in Flows :
            (flow[f].stage = "new" /\ flow'[f].stage # "new"
             /\ QualifyingIndices(rules, flow[f].url, "request",
                                  TypeBreakpoint) = {})
            => /\ ~flow'[f].intercepted
               /\ intercepted_flows' = intercepted_flows
               /\ hold'[f] = hold[f]]_vars
    /\ [](\A f \in Flows :
            (hold[f].stores = 0 /\ flow[f].stage \in {"request", "req_done"})
            => /\ ~flow[f].intercepted
               /\ FlowId(f) \notin DOMAIN intercepted_flows
               /\ \A i \in Pending(queue, f, "request") :
                     ~queue[i].intercepted)

\* The request-phase event of a request that was not held has been sent to,
\* and has reached, both peers.
C9_Witness ==
    \E f \in Flows :
        /\ hold[f].stores = 0
        /\ Pending(lastBroadcast.message, f, "request") # {}
        /\ ~lastBroadcast.message[1].intercepted
        /\ lastBroadcast.recipients = Peers
        /\ lastBroadcast.delivered = Peers

\* C10: in a broadcast, a failing send to one peer leaves the sends to the
\* other peers unaffected (every recipient whose socket is alive receives the
\* message) and the message is not queued again for anyone.
C10_SendFailureIsolated ==
    [][queue # <<>> /\ queue' = Tail(queue) =>
          /\ \A c \in ws_clients :
                conn[c] = "open" => c \in lastBroadcast'.delivered
          /\ lastBroadcast'.delivered \subseteq lastBroadcast'.recipients
          /\ \A c \in ws_clients :
                conn[c] = "broken" => c \notin lastBroadcast'.delivered
          /\ \A i \in 1..Len(queue') : queue'[i] # Head(queue)]_vars

\* A broadcast in which the send to one peer failed and the send to the
\* other succeeded.
C10_Witness ==
    /\ lastBroadcast.message # <<>>
    /\ lastBroadcast.delivered # {}
    /\ lastBroadcast.recipients \ lastBroadcast.delivered # {}

\* A _broadcast call runs: the oldest pending hand-off is sent.
BroadcastRuns == queue # <<>> /\ queue' = Tail(queue)

\* C11: a peer joins the live set on its handshake and leaves it when its
\* read loop ends, and a peer to which a broadcast send failed is no longer
\* in the live set once that broadcast is over.
C11_SendFailureRemovesPeer ==
    /\ [][\A c \in Peers :
            (conn[c] = "new" /\ conn'[c] = "open") => c \in ws_clients']_vars
    /\ [][\A c \in Peers :
            (conn[c] # "closed" /\ conn'[c] = "closed")
            => c \notin ws_clients']_vars
    /\ [][BroadcastRuns =>
            \A c \in lastBroadcast'.recipients \ lastBroadcast'.delivered :
                c \notin ws_clients']_vars

\* An updateRules command has been processed.
UpdateProcessed == wPc = "decoding" /\ wPc' = "idle"

\* The decoding of one element of the rules array in which every field that
\* cannot be read takes its default value.
DecodeWithDefaults(r) ==
    IF r.isObject THEN DecodeRule(r)
    ELSE ProxyRule("", "", <<>>, TRUE, "request", "", NoUrl)

\* C12: once an updateRules command has been processed, the rule set is the
\* element-by-element decoding of the given array, in the given order, a
\* malformed element being decoded with default values; and a match over an
\* empty rule set returns none.
C12_UpdateInstallsDecodedArray ==
    /\ [][UpdateProcessed =>
            /\ Len(rules') = Len(wData)
            /\ \A i \in 1..Len(wData) :
                  rules'[i] = DecodeWithDefaults(wData[i])]_vars
    /\ [][(lastMatch' # lastMatch /\ lastMatch'.valid /\ rules = <<>>)
          => lastMatch'.idx = 0]_vars

\* A resume command for the held flow f, carrying m, is processed and the
\* flow is released.
Resumed(f, m) ==
    /\ FlowId(f) \in DOMAIN intercepted_flows
    /\ intercepted_flows[FlowId(f)] = f
    /\ ~ModRaises(m)
    /\ \E c \in Peers : HandleResume(c, FlowId(f), m)

\* C13: a resume whose modified.request.headers is the mapping H leaves the
\* released flow with exactly the request headers H, whatever headers it had
\* before; likewise for modified.response.headers when the flow has a
\* response.
C13_HeadersFullyReplaced ==
    [][\A f \in Flows, m \in ModPool : Resumed(f, m) =>
          /\ ("request" \in m.has /\ "headers" \in m.reqHas)
                => flow'[f].reqHeaders = m.reqHeaders
          /\ ("response" \in m.has /\ "headers" \in m.respHas
              /\ flow[f].response.present)
                => flow'[f].response.headers = m.respHeaders]_vars

\* One released flow has exactly the request headers it was given, another
\* exactly the response headers it was given, none of the former ones.
C13_Witness ==
    \E f, g \in Flows :
        /\ flow[f].reqHeaders = HeadersMod /\ ~flow[f].intercepted
        /\ flow[g].response.present /\ ~flow[g].intercepted
        /\ flow[g].response.headers = HeadersRespMod

\* C14: a resume changes, besides releasing the flow, only the fields its
\* modified object gives: every request field (method, url, headers, body)
\* and response field (status, headers, body) it does not give keeps the
\* value it had, a resume without modified object changes no field, and
\* modified.response changes nothing when the flow has no response.
C14_ResumeChangesOnlyGivenFields ==
    [][\A f \in Flows, m \in ModPool : Resumed(f, m) =>
          LET old == flow[f]
              new == flow'[f]
              ReqGiven(k) == "request" \in m.has /\ k \in m.reqHas
              RespGiven(k) == /\ "response" \in m.has /\ k \in m.respHas
                              /\ old.response.present
          IN /\ ~ReqGiven("method") => new.method = old.method
             /\ ~ReqGiven("url") => new.url = old.url
             /\ ~ReqGiven("headers") => new.reqHeaders = old.reqHeaders
             /\ ~ReqGiven("body") => new.reqBody = old.reqBody
             /\ ~RespGiven("status_code") =>
                   new.response.status_code = old.response.status_code
             /\ ~RespGiven("headers") =>
                   new.response.headers = old.response.headers
             /\ ~RespGiven("body") => new.response.body = old.response.body
             /\ new.response.present = old.response.present
             /\ m.has = {} => new = FlowResume(old)
             /\ new.stage = old.stage /\ new.killed = old.killed
             /\ \A g \in Flows \ {f} : flow'[g] = flow[g]]_vars

\* A flow without response was resumed with new url and headers: its method
\* and body are those it was held with; and a flow with a response was
\* resumed with new response headers and body: its status is unchanged.
C14_Witness ==
    \E f, g \in Flows :
        /\ ~flow[f].intercepted /\ ~flow[f].response.present
        /\ flow[f].url = UrlRemote /\ flow[f].reqHeaders = HeadersMod
        /\ flow[f].method = "GET" /\ flow[f].reqBody = ""
        /\ ~flow[g].intercepted /\ flow[g].response.body = "edited"
        /\ flow[g].response.status_code = 200
        /\ flow[g].reqHeaders = HeadersOrig

\* Peer c sends a malformed message, an unrecognized command, or a resume or
\* kill naming an id that is not held, and the message is processed.
RejectedCommand(c) ==
    \/ MalformedMessage(c)
    \/ UnknownCommand(c)
    \/ \E id \in CommandIds \ DOMAIN intercepted_flows :
          \/ \E m \in ModPool : HandleResume(c, id, m)
          \/ HandleKill(c, id)

\* C15: processing a malformed message, an unrecognized command or a resume
\* or kill for an id that is not held changes neither the rule set, nor the
\* registry, nor the live set, nor any flow; it instructs the engine of
\* nothing, sends nothing to any peer, and the sender stays connected with
\* its read loop ready for the next message.
C15_RejectedCommandChangesNothing ==
    [][\A c \in Peers : RejectedCommand(c) =>
          /\ UNCHANGED <<rules, intercepted_flows, ws_clients, flow>>
          /\ UNCHANGED <<flowOps, hold>>
          /\ UNCHANGED <<pongs, lastBroadcast, queue>>
          /\ conn' = conn /\ c \in ws_clients' /\ wPc' = "idle"
          /\ wlog'[1] \in {"invalid_json", "unknown", "not_found"}]_vars

\* A malformed message was processed while a flow was held; the flow is
\* still held and the peer can send its next message.
C15_Witness ==
    /\ wlog = Log("invalid_json", NoId)
    /\ \E c \in Peers : CanReceive(c)
    /\ \E f \in Flows : /\ FlowId(f) \in DOMAIN intercepted_flows
                        /\ flow[f].intercepted

\* C16: a ping from a peer makes the system send exactly one pong, to that
\* peer; no other peer is sent anything, no event is broadcast, and the rule
\* set and the registry are unchanged.
C16_PingAnsweredToSenderOnly ==
    [][\A c \in Peers : Ping(c) =>
          /\ pongs'[c] = pongs[c] + 1
          /\ \A d \in Peers \ {c} : pongs'[d] = pongs[d]
          /\ UNCHANGED <<lastBroadcast, queue>>
          /\ UNCHANGED <<rules, intercepted_flows>>]_vars

\* Two peers are connected, a flow is held, and one peer has been sent a
\* pong while the other has been sent none.
C16_Witness ==
    /\ \A c \in Peers : conn[c] = "open"
    /\ \E c \in Peers : pongs[c] = 1 /\ \A d \in Peers \ {c} : pongs[d] = 0
    /\ wlog = Log("pong", NoId)
    /\ intercepted_flows # EmptyRegistry

\* The request hook that is running has held its flow at the breakpoint
\* step.
HeldByRunningHook ==
    /\ ePc \in {"req_map", "req_block"}
    /\ hold[eFlow].stores > 0

\* C17: once the breakpoint step of the request hook has held the flow, the
\* map-remote step of the same invocation does not rewrite it, the block
\* step does not terminate it, and the hook goes on to emit the
\* request-phase event.
C17_HeldFlowGoesStraightToEvent ==
    [][(HeldByRunningHook /\ ePc' # ePc) =>
          /\ flow'[eFlow].url = flow[eFlow].url
          /\ ~flow'[eFlow].blocked
          /\ ePc = "req_block" => ePc' = "req_send"]_vars

\* The response hook of flow f finds a map-local rule with a file, and
\* reading the file fails.
MapLocalReadFails(f) ==
    /\ ResponseMapLocal(f)
    /\ lastMatch'.idx # 0
    /\ rules[lastMatch'.idx].file_path # ""
    /\ ~flow'[f].response.local

\* C18: when reading the file of a matching map-local rule fails, the flow
\* keeps the response received from the server, nothing is propagated (the
\* hook goes on), the response breakpoint check runs next and holds the flow
\* when a rule matches, and the hook then emits the response-phase event
\* carrying that response.
C18_MapLocalFailureIsNotFatal ==
    /\ [][\A f \in Flows : MapLocalReadFails(f) =>
            /\ flow'[f].response = OrigResponse
            /\ flowOps' = flowOps
            /\ ePc' = "resp_bp" /\ eFlow' = f
            /\ flow'[f].stage = "response"]_vars
    /\ [][(ePc = "resp_bp" /\ ePc' # ePc) =>
            /\ ePc' = "resp_send"
            /\ lastMatch'.type = TypeBreakpoint
            /\ lastMatch'.phase = "response"
            /\ flow'[eFlow].response = flow[eFlow].response
            /\ QualifyingIndices(rules, flow[eFlow].url, "response",
                                 TypeBreakpoint) # {}
               => /\ flow'[eFlow].intercepted
                  /\ FlowId(eFlow) \in DOMAIN intercepted_flows']_vars
    /\ [][(ePc = "resp_send" /\ ePc' # ePc) =>
            /\ ePc' = "idle"
            /\ flow'[eFlow].stage = "resp_done"
            /\ ws_clients # {} =>
                 /\ Len(queue') = Len(queue) + 1
                 /\ queue'[Len(queue')].phase = "response"
                 /\ queue'[Len(queue')].id = FlowId(eFlow)
                 /\ queue'[Len(queue')].response = flow[eFlow].response]_vars

\* Under the rule set whose map-local rule matches every flow, a response
\* hook has returned with the server's response in place, the flow held by
\* the response breakpoint and its response-phase event handed off.
C18_Witness ==
    \E f \in Flows :
        /\ rules = DecodeAll(DataMixed)
        /\ ePc = "idle" /\ flow[f].stage = "resp_done"
        /\ flow[f].response = OrigResponse
        /\ flow[f].intercepted
        /\ \E i \in Pending(queue, f, "response") :
              queue[i].response = OrigResponse

\* A resume or kill command naming the id of flow f is processed.
ReleaseCommand(f) ==
    \E c \in Peers :
        \/ \E m \in ModPool : HandleResume(c, FlowId(f), m)
        \/ HandleKill(c, FlowId(f))

\* C19: the registry entry of a flow disappears only in a step that processes
\* a resume or kill command for its id, and once the hook that registered the
\* flow has returned the flow stays paused until such a step; connecting,
\* disconnecting, updateRules, ping, broadcasts and the hooks of other flows
\* do neither.
C19_OnlyResumeOrKillReleases ==
    /\ [][\A f \in Flows :
            (/\ FlowId(f) \in DOMAIN intercepted_flows
             /\ FlowId(f) \notin DOMAIN intercepted_flows')
            => ReleaseCommand(f)]_vars
    /\ [][\A f \in Flows :
            (/\ FlowId(f) \in DOMAIN intercepted_flows
             /\ flow[f].intercepted /\ ~flow'[f].intercepted
             /\ (ePc = "idle" \/ eFlow # f))
            => ReleaseCommand(f)]_vars

\* The only peer has disconnected, rules have been replaced and another
\* flow has been handled, and the flow held before is still registered and
\* paused.
C19_Witness ==
    \E f \in Flows :
        /\ FlowId(f) \in DOMAIN intercepted_flows /\ flow[f].intercepted
        /\ ePc = "idle"
        /\ ws_clients = {} /\ \E c \in Peers : conn[c] = "closed"
        /\ \A c \in Peers : conn[c] # "open" /\ conn[c] # "broken"
        /\ rules = DecodeAll(DataBreakpoints)
        /\ \E g \in Flows \ {f} : flow[g].stage = "resp_done"

\* C20: every registry entry refers to a flow that the engine holds paused
\* and that has not been terminated, so a resume or kill command that finds
\* an entry acts on a paused, live flow.
C20_EntriesReferToPausedFlows ==
    \A id \in DOMAIN intercepted_flows :
        /\ flow[intercepted_flows[id]].intercepted
        /\ ~flow[intercepted_flows[id]].killed

====
